---------------------------- MODULE Spec2Model ----------------------------
(***************************************************************************)
(* Model of modem-scraper: the bounded FIFO dedup set                       *)
(* (src/src/lib.rs, FixedSizeSortedHashSet), the HNAP session client        *)
(* (src/modem-scraper-lib/src/lib.rs, SOAPClient) and the poll loop of      *)
(* src/src/main.rs.                                                         *)
(*                                                                          *)
(* Five specifications:                                                     *)
(*   SetSpec    the dedup set under arbitrary sequences of its public       *)
(*              calls insert / pop_front / contains, for every capacity;    *)
(*   Spec       the program: two-phase login, then the poll loop            *)
(*              (metrics, logs, logs_to_loki, tick);                        *)
(*   RepeatSpec Spec, with the log list of the previous cycle remembered;   *)
(*   ClientSpec the public methods of SOAPClient called in any order;       *)
(*   CodecSpec  the field codecs of payloads/s33.rs on raw field texts.     *)
(***************************************************************************)
EXTENDS Naturals, Sequences, FiniteSets, TLC

VARIABLES
    \* FixedSizeSortedHashSet (src/src/lib.rs:25-29)
    hash_set,       \* HashSet<T>
    deque,          \* VecDeque<T>, front = index 1
    capacity,       \* usize
    \* observation of the last call on the set (SetSpec)
    op,             \* [name, arg] of the last call
    ret,            \* its return value: None, Some(x) or a boolean
    inserted,       \* every value pushed on the deque so far, in order
    removed,        \* how many values were popped off the deque so far
    popped,         \* whether the client has called pop_front itself
    \* SOAPClient (src/modem-scraper-lib/src/lib.rs:26-31)
    endpoint,       \* String
    private_key,    \* String
    cookie,         \* String
    \* the HTTP exchange of send_soap_action / of the Loki POST
    request,        \* the last request sent
    reply,          \* the last reply received
    result,         \* how the last send_soap_action ended: "ok" (Ok),
                    \* "err" (Err), "panic"; "none" before the first
    in_flight,      \* requests sent whose reply has not arrived
    sent,           \* requests sent so far by the running call of login,
                    \* metrics or logs (the last call, once it returned)
    \* locals of login, login_with_challenge, main and logs_to_loki
    password,       \* settings "device_password"
    response,       \* login: the decoded phase-1 LoginResponse
    login_result,   \* login_with_challenge: login_response.get_result()
    logs,           \* customer_status_log_list of the decoded logs reply
    streams,        \* the Vec<Option<..>> collected by the map closure
    unevicted,      \* records forwarded and not evicted from the set since
    last_logs,      \* RepeatSpec: the log list of the previous poll cycle,
                    \* <<>> in the first cycle
    \* the field codecs of payloads/s33.rs (CodecSpec)
    field,          \* the field handed to a codec: its text, a sequence of
                    \* characters, and the records the text was joined from
    parsed,         \* what the codec made of it
    \* control state: position of main / of the API client
    pc

setvars == <<hash_set, deque, capacity>>
obsvars == <<op, ret, inserted, removed, popped>>
clientvars == <<endpoint, private_key, cookie>>
httpvars == <<request, reply, result, in_flight, sent>>
codecvars == <<field, parsed>>
localvars == <<password, response, login_result, logs, streams, unevicted,
               last_logs, field, parsed>>
vars == <<hash_set, deque, capacity, op, ret, inserted, removed, popped,
          endpoint, private_key, cookie, request, reply, result, in_flight,
          sent,
          password, response, login_result, logs, streams, unevicted,
          last_logs, field, parsed, pc>>

---------------------------------------------------------------------------
(* Bounds of the model *)

\* items (log entries) are 1..MaxItem
MaxItem == 4
\* capacities explored: 0..MaxCapacity
MaxCapacity == 3
\* the largest number of days in the up-time texts of small numbers
MaxDays == 9999
\* a log field is joined from 1..MaxRecords records
MaxRecords == 2
\* SetSpec stops inserting after MaxInserts pushes
MaxInserts == 4
\* a logs reply holds 1..MaxLogs records
MaxLogs == 2

Items == 1..MaxItem

---------------------------------------------------------------------------
(* Option<T> *)

None == <<>>
Some(x) == <<x>>

Range(q) == {q[i] : i \in 1..Len(q)}

---------------------------------------------------------------------------
(* FixedSizeSortedHashSet, as pure functions on the struct value           *)
(* s = [hash_set, deque, capacity].  A call returns                        *)
(* [self |-> the struct afterwards, ret |-> return value,                  *)
(*  panic |-> whether the call panicked instead of returning].             *)

Self == [hash_set |-> hash_set, deque |-> deque, capacity |-> capacity]

\* with_capacity (lib.rs:53-59)
with_capacity(c) == [hash_set |-> {}, deque |-> <<>>, capacity |-> c]

\* mutant of contains: the lookup never finds the value
contains_never(s, value) == FALSE

\* contains (lib.rs:35-37): looks at the hash set only
contains(s, value) == value \in s.hash_set

\* mutant of pop_front: a popped value missing from the hash set is
\* returned as if it had been found
pop_front_silent(s) ==
    IF s.deque # <<>>
    THEN [self |-> [s EXCEPT !.deque = Tail(@), !.hash_set = @ \ {Head(s.deque)}],
          ret |-> Some(Head(s.deque)), panic |-> FALSE]
    ELSE [self |-> s, ret |-> None, panic |-> FALSE]

\* pop_front (lib.rs:39-51): pops the deque; panics when the popped value
\* is not in the hash set (the deque has then already lost the value).
pop_front(s) ==
    IF s.deque # <<>>
    THEN LET i == Head(s.deque)
             d == Tail(s.deque)
         IN IF i \notin s.hash_set
            THEN [self |-> [s EXCEPT !.deque = d], ret |-> None, panic |-> TRUE]
            ELSE [self |-> [s EXCEPT !.deque = d, !.hash_set = @ \ {i}],
                  ret |-> Some(i), panic |-> FALSE]
    ELSE [self |-> s, ret |-> None, panic |-> FALSE]

\* mutant of at_capacity: evicts only once the deque holds capacity items
at_capacity_strict(s) == Len(s.deque) + 1 > s.capacity

\* the eviction test of insert (lib.rs:64)
at_capacity(s) == Len(s.deque) + 1 >= s.capacity

\* mutant of insert: the popped value is dropped instead of returned
insert_drops_popped(s, value) ==
    LET p == IF at_capacity(s) THEN pop_front(s)
             ELSE [self |-> s, ret |-> None, panic |-> FALSE]
    IN IF p.panic
       THEN p
       ELSE [self |-> [p.self EXCEPT !.deque = Append(@, value),
                                     !.hash_set = @ \cup {value}],
             ret |-> None, panic |-> FALSE]

\* insert (lib.rs:62-72)
insert(s, value) ==
    LET p == IF at_capacity(s) THEN pop_front(s)
             ELSE [self |-> s, ret |-> None, panic |-> FALSE]
    IN IF p.panic
       THEN p
       ELSE [self |-> [p.self EXCEPT !.deque = Append(@, value),
                                     !.hash_set = @ \cup {value}],
             ret |-> p.ret, panic |-> FALSE]

---------------------------------------------------------------------------
(* SOAPClient: strings, signing, replies *)

\* lib.rs:14-15
UNDEFINED_PRIVATE_KEY == "withoutloginkey"
SOAP_DOMAIN == "http://purenetworks.com/HNAP1/"

\* hex_hmac_md5 (lib.rs:18-23): the uppercase hex HMAC-MD5 of data under
\* key, as a symbolic term: distinct (key, data) give distinct digests and
\* no digest is a string the program holds otherwise.
hex_hmac_md5(key, data) == "HMAC[" \o key \o "][" \o data \o "]"

\* inputs of the run
Endpoints == {"https://192.168.100.1/HNAP1/"}
Username == "admin"
Passwords == {"hunter2"}
\* SystemTime::now() in milliseconds, as a decimal string (lib.rs:54-58)
Times == {"1700000000000", "1700000000001"}
\* what the modem may put in a phase-1 reply
PublicKeys == {"PK1", "PK2"}
Challenges == {"CH1"}
Cookies == {"uid1", "uid2"}
\* <Action>Result values
LoginStatuses == {"OK", "ERROR", "FAILED", "LOCKUP", "REBOOT", "OK_CHANGED", "WEIRD"}
PollStatuses == {"OK", "ERROR", "WEIRD"}

NoRequest == [action |-> "none"]
NoReply == [transport |-> "none"]
NoField == [text |-> <<>>, records |-> <<>>]
NotParsed == [kind |-> "none"]
NoResponse == [LoginResult |-> "none"]

\* the request built by send_soap_action (lib.rs:54-85) from the client's
\* fields key = private_key, uid = cookie, url = endpoint
SignedRequest(url, key, uid, action, params, current_time) ==
    [url |-> url,
     action |-> action,
     soap_action |-> SOAP_DOMAIN \o action,
     hnap_auth |-> hex_hmac_md5(key, current_time \o SOAP_DOMAIN \o action)
                      \o " " \o current_time,
     cookie |-> "Secure; uid=" \o uid \o "; PrivateKey=" \o key,
     body |-> params]

\* An HTTP reply: transport is "ok" when a response arrived, status is its
\* HTTP status, json whether the body parses as JSON, envelope whether the
\* JSON object holds the key "<Action>Response", body the object under it.
HttpReply(status, json, envelope, body) ==
    [transport |-> "ok", status |-> status, json |-> json,
     envelope |-> envelope, body |-> body]
TransportError ==
    [transport |-> "error", status |-> 0, json |-> FALSE,
     envelope |-> FALSE, body |-> [Result |-> "none"]]

\* replies every action can get besides well-formed ones
BadReplies ==
    {TransportError,
     HttpReply(500, TRUE, TRUE, [Result |-> "none"]),
     HttpReply(404, FALSE, FALSE, [Result |-> "none"]),
     HttpReply(200, FALSE, FALSE, [Result |-> "none"]),
     HttpReply(200, TRUE, FALSE, [Result |-> "none"])}

\* fields serde requires for each reply type (s33.rs:282-299, 356-407).
\* "Channels" stands for the sub-responses of the metrics reply with their
\* codec-decoded fields, "CustomerStatusLogList" for the log sub-response;
\* the status send_soap_action reads is the outer <Action>Result only.
LoginResponseFields == {"PublicKey", "Challenge", "Cookie", "LoginResult"}
LoginWithChallengeResponseFields == {"LoginResult"}
MetricsResponseFields == {"Channels", "GetMultipleHNAPsResult"}
LogsResponseFields == {"CustomerStatusLogList", "GetMultipleHNAPsResult"}

\* a function without one of its fields
Without(obj, f) == [k \in DOMAIN obj \ {f} |-> obj[k]]

\* send_soap_action after the request is sent (lib.rs:88-114); `decodes`
\* says whether serde decodes the object under the envelope key into the
\* reply type T, `result_field` names T's status field:
\*   [kind |-> "panic"]            an unwrap_or_log / unwrap fired
\*   [kind |-> "err"]              Err(..) returned
\*   [kind |-> "ok", value |-> v]  Ok(v) returned
\* Its mutant soap_result_passes_error returns Ok for the status "ERROR",
\* its mutant soap_result_ignores_status decodes the body whatever the HTTP
\* status is.
soap_result_ignores_status(r, decodes, result_field) ==
    IF r.transport # "ok" THEN [kind |-> "panic"]
    ELSE IF ~r.json THEN [kind |-> "panic"]
    ELSE IF ~r.envelope THEN [kind |-> "panic"]
    ELSE IF ~decodes THEN [kind |-> "panic"]
    ELSE IF r.body[result_field] = "ERROR" THEN [kind |-> "err"]
    ELSE [kind |-> "ok", value |-> r.body]

soap_result_passes_error(r, decodes, result_field) ==
    IF r.transport # "ok" THEN [kind |-> "panic"]
    ELSE IF r.status # 200 THEN [kind |-> "err"]
    ELSE IF ~r.json THEN [kind |-> "panic"]
    ELSE IF ~r.envelope THEN [kind |-> "panic"]
    ELSE IF ~decodes THEN [kind |-> "panic"]
    ELSE [kind |-> "ok", value |-> r.body]

soap_result(r, decodes, result_field) ==
    IF r.transport # "ok" THEN [kind |-> "panic"]
    ELSE IF r.status # 200 THEN [kind |-> "err"]
    ELSE IF ~r.json THEN [kind |-> "panic"]
    ELSE IF ~r.envelope THEN [kind |-> "panic"]
    ELSE IF ~decodes THEN [kind |-> "panic"]
    ELSE IF r.body[result_field] = "ERROR" THEN [kind |-> "err"]
    ELSE [kind |-> "ok", value |-> r.body]

\* serde's decode of each reply type: every field is required
\* (s33.rs:282-299)
LoginResponse_decodes(obj) == LoginResponseFields \subseteq DOMAIN obj
LoginWithChallengeResponse_decodes(obj) ==
    LoginWithChallengeResponseFields \subseteq DOMAIN obj

---------------------------------------------------------------------------
(* SetSpec: a client calling the public API in any order *)

\* the program part of the state, untouched by SetSpec
ProgramIdle ==
    /\ endpoint \in Endpoints
    /\ private_key = UNDEFINED_PRIVATE_KEY
    /\ cookie = ""
    /\ request = NoRequest
    /\ reply = NoReply
    /\ result = "none"
    /\ in_flight = 0
    /\ sent = 0
    /\ password \in Passwords
    /\ response = NoResponse
    /\ login_result = "none"
    /\ logs = <<>>
    /\ streams = <<>>
    /\ unevicted = {}
    /\ last_logs = <<>>
    /\ field = NoField
    /\ parsed = NotParsed

InitSet ==
    /\ capacity \in 0..MaxCapacity
    /\ hash_set = with_capacity(capacity).hash_set
    /\ deque = with_capacity(capacity).deque
    /\ op = [name |-> "with_capacity", arg |-> None]
    /\ ret = None
    /\ inserted = <<>>
    /\ removed = 0
    /\ popped = FALSE
    /\ ProgramIdle
    /\ pc = "api"

SetResult(r) ==
    /\ hash_set' = r.self.hash_set
    /\ deque' = r.self.deque
    /\ capacity' = r.self.capacity
    /\ ret' = r.ret
    /\ pc' = IF r.panic THEN "aborted" ELSE "api"

ApiInsert ==
    /\ pc = "api"
    /\ UNCHANGED <<clientvars, httpvars, localvars>>
    /\ Len(inserted) < MaxInserts
    /\ \E x \in Items :
         LET r == insert(Self, x)
         IN /\ SetResult(r)
            /\ op' = [name |-> "insert", arg |-> Some(x)]
            /\ inserted' = IF r.panic THEN inserted ELSE Append(inserted, x)
            /\ removed' = removed + (Len(deque) + (IF r.panic THEN 0 ELSE 1)
                                        - Len(r.self.deque))
            /\ UNCHANGED popped

ApiPopFront ==
    /\ pc = "api"
    /\ UNCHANGED <<clientvars, httpvars, localvars>>
    /\ LET r == pop_front(Self)
       IN /\ SetResult(r)
          /\ op' = [name |-> "pop_front", arg |-> None]
          /\ removed' = removed + (Len(deque) - Len(r.self.deque))
          /\ popped' = TRUE
          /\ UNCHANGED inserted

ApiContains ==
    /\ pc = "api"
    /\ UNCHANGED <<clientvars, httpvars, localvars>>
    /\ \E x \in Items :
         /\ ret' = Some(contains(Self, x))
         /\ op' = [name |-> "contains", arg |-> Some(x)]
         /\ UNCHANGED <<hash_set, deque, capacity, inserted, removed, popped, pc>>

NextSet ==
    \/ ApiInsert
    \/ ApiPopFront
    \/ ApiContains

SetSpec == InitSet /\ [][NextSet]_vars


---------------------------------------------------------------------------
(* Spec: the program of main.rs:133-162 *)

\* parameters of the two Login requests (lib.rs:166-167, 140-146)
Phase1Params == [Action |-> "request", Username |-> Username]
Phase2Params(login_password) ==
    [Action |-> "login", Username |-> Username,
     LoginPassword |-> login_password, Captcha |-> "",
     PrivateLogin |-> "LoginPassword"]
\* parameters of metrics() and logs() (lib.rs:188-196, 208-211)
MetricsParams ==
    [GetArrisDeviceStatus |-> "", GetArrisRegisterInfo |-> "",
     GetCustomerStatusStartupSequence |-> "",
     GetCustomerStatusConnectionInfo |-> "",
     GetCustomerStatusDownstreamChannelInfo |-> "",
     GetCustomerStatusUpstreamChannelInfo |-> ""]
LogsParams == [GetCustomerStatusLog |-> "", GetCustomerStatusLogXXX |-> ""]

\* mutant of derived_private_key: the key of the client is left as it was
derived_private_key_default(public_key, pw, challenge) == UNDEFINED_PRIVATE_KEY

\* the private key login_with_challenge stores (lib.rs:128-133)
derived_private_key(public_key, pw, challenge) ==
    hex_hmac_md5(public_key \o pw, challenge)

\* mutant of expect_login_response: a failed phase 1 goes on with an empty
\* LoginResponse (unwrap_or_default) instead of panicking
expect_login_response_or_default(res) ==
    IF res.kind = "ok" THEN Some(res.value)
    ELSE Some([PublicKey |-> "", Challenge |-> "", Cookie |-> "",
               LoginResult |-> ""])

\* login: .expect on the phase-1 result (lib.rs:170-173): the LoginResponse
\* login goes on with, None when it panics
expect_login_response(res) ==
    IF res.kind = "ok" THEN Some(res.value) ELSE None

\* mutant of login_status_ok: "OK_CHANGED" counts as a successful login
login_status_ok_or_changed(status) == status \in {"OK", "OK_CHANGED"}

\* login_with_challenge: whether the status makes it return Ok
\* (lib.rs:153-160); login unwraps the Err of every other status
login_status_ok(status) == status = "OK"

\* A log record of the raw CustomerStatusLogList: wf says whether it matches
\* the grammar of log_parser (s33.rs:81-88), entry is the LogEntry it
\* decodes to.  Entry 0 is dated before 1970: its timestamp_nanos() is
\* negative and u128::try_from fails on it (main.rs:73).
Entries == 0..MaxItem
RawRecord(e) == [wf |-> TRUE, entry |-> e]
MalformedRecord == [wf |-> FALSE, entry |-> 0]
timestamp_negative(e) == e = 0

RECURSIVE SeqsUpTo(_, _)
\* the non-empty sequences over S of length <= n
SeqsUpTo(S, n) ==
    IF n = 0 THEN {}
    ELSE LET shorter == SeqsUpTo(S, n - 1)
         IN {<<x>> : x \in S} \cup {Append(q, x) : q \in shorter, x \in S}

\* log_parser (s33.rs:76-120): splits on "}-{" (never an empty list) and
\* panics on a record that does not match
log_parser_ok(raw) == \A i \in 1..Len(raw) : raw[i].wf
log_parser(raw) == [i \in 1..Len(raw) |-> raw[i].entry]

RawLogLists ==
    {[i \in 1..Len(q) |-> RawRecord(q[i])] : q \in SeqsUpTo(Entries, MaxLogs)}
        \cup {<<MalformedRecord>>}

\* replies to each request; each set has a reply whose body is complete
\* and says "OK" under an HTTP status other than 200
Login1Replies ==
    BadReplies
    \cup {HttpReply(503, TRUE, TRUE,
                    [PublicKey |-> "PK1", Challenge |-> "CH1", Cookie |-> "uid1",
                     LoginResult |-> "OK"])}
    \cup {HttpReply(200, TRUE, TRUE,
                    [PublicKey |-> k, Challenge |-> c, Cookie |-> u,
                     LoginResult |-> "OK"]) :
            k \in PublicKeys, c \in Challenges, u \in Cookies}
    \cup {HttpReply(200, TRUE, TRUE,
                    [PublicKey |-> "PK1", Challenge |-> "CH1", Cookie |-> "uid1",
                     LoginResult |-> st]) : st \in {"ERROR", "FAILED"}}
    \cup {HttpReply(200, TRUE, TRUE,
                    Without([PublicKey |-> "PK1", Challenge |-> "CH1",
                             Cookie |-> "uid1", LoginResult |-> "OK"], f)) :
            f \in LoginResponseFields}
Login2Replies ==
    BadReplies
    \cup {HttpReply(503, TRUE, TRUE, [LoginResult |-> "OK"])}
    \cup {HttpReply(200, TRUE, TRUE, [LoginResult |-> st]) : st \in LoginStatuses}
    \cup {HttpReply(200, TRUE, TRUE, [Other |-> "x"])}
\* the channel fields of a metrics reply either all decode or one of the
\* field codecs fails (s33.rs:13-57, 60-67, 183-266)
MetricsReplies ==
    BadReplies
    \cup {HttpReply(503, TRUE, TRUE,
                    [Channels |-> "wellformed", GetMultipleHNAPsResult |-> "OK"])}
    \cup {HttpReply(200, TRUE, TRUE,
                    [Channels |-> ch, GetMultipleHNAPsResult |-> st]) :
            ch \in {"wellformed", "malformed"}, st \in PollStatuses}
    \cup {HttpReply(200, TRUE, TRUE, [Channels |-> "wellformed"])}
LogsReplies ==
    BadReplies
    \cup {HttpReply(503, TRUE, TRUE,
                    [CustomerStatusLogList |-> <<RawRecord(1)>>,
                     GetMultipleHNAPsResult |-> "OK"])}
    \cup {HttpReply(200, TRUE, TRUE,
                    [CustomerStatusLogList |-> raw, GetMultipleHNAPsResult |-> st]) :
            raw \in RawLogLists, st \in {"OK"}}
    \cup {HttpReply(200, TRUE, TRUE,
                    [CustomerStatusLogList |-> <<RawRecord(1)>>,
                     GetMultipleHNAPsResult |-> st]) : st \in PollStatuses}
    \cup {HttpReply(200, TRUE, TRUE, [GetMultipleHNAPsResult |-> "OK"])}

\* s33.rs:376-407: every field is required and its codec must accept it
MetricsResponse_decodes(obj) ==
    /\ MetricsResponseFields \subseteq DOMAIN obj
    /\ obj.Channels = "wellformed"
LogsResponse_decodes(obj) ==
    /\ LogsResponseFields \subseteq DOMAIN obj
    /\ log_parser_ok(obj.CustomerStatusLogList)

Init ==
    \* main.rs:143-144 passes 30; the model runs the loop for each
    \* capacity in 2..MaxCapacity
    /\ capacity \in 2..MaxCapacity
    /\ hash_set = with_capacity(capacity).hash_set
    /\ deque = with_capacity(capacity).deque
    /\ op = [name |-> "with_capacity", arg |-> None]
    /\ ret = None
    /\ inserted = <<>>
    /\ removed = 0
    /\ popped = FALSE
    \* SOAPClient::new (lib.rs:34-44)
    /\ ProgramIdle
    /\ pc = "login"

\* login: the phase-1 request is sent (lib.rs:166-172), signed by
\* send_soap_action with the private key and the cookie the client holds
\* when login is called (lib.rs:62-63, 76-82); the caller waits at `to`
login_request(to) ==
    /\ \E t \in Times :
         request' = SignedRequest(endpoint, private_key, cookie,
                                  "Login", Phase1Params, t)
    /\ pc' = to
    /\ in_flight' = in_flight + 1
    /\ sent' = 1
    /\ UNCHANGED <<setvars, obsvars, clientvars, reply, result, localvars>>

\* main calls login once, before the loop (main.rs:136-141)
Login1Send ==
    /\ pc = "login"
    /\ login_request("login1_wait")

\* login: the phase-1 reply arrives; on success login_with_challenge stores
\* cookie and private key and sends the phase-2 request (lib.rs:170-181,
\* 126-150)
login_challenge(to) ==
    /\ \E r \in Login1Replies, t \in Times :
         LET res == soap_result(r, LoginResponse_decodes(r.body), "LoginResult")
             got == expect_login_response(res)
         IN /\ reply' = r
            /\ result' = res.kind
            /\ IF got = None
               THEN /\ pc' = "aborted"
                    /\ in_flight' = in_flight - 1
                    /\ UNCHANGED sent
                    /\ UNCHANGED <<clientvars, request, response>>
               ELSE LET v == got[1]
                        key == derived_private_key(v.PublicKey, password, v.Challenge)
                        login_password == hex_hmac_md5(key, v.Challenge)
                    IN /\ response' = v
                       /\ cookie' = v.Cookie
                       /\ private_key' = key
                       /\ request' = SignedRequest(endpoint, key, v.Cookie, "Login",
                                                   Phase2Params(login_password), t)
                       /\ pc' = to
                       \* one reply in, the next request out
                       /\ in_flight' = (in_flight - 1) + 1
                       /\ sent' = sent + 1
                       /\ UNCHANGED endpoint
    /\ UNCHANGED <<setvars, obsvars, password, codecvars, login_result, logs,
                   streams, unevicted, last_logs>>

Login1Reply ==
    /\ pc = "login1_wait"
    /\ login_challenge("login2_wait")

\* mutant of Login2Reply: login drops the result of login_with_challenge
\* instead of unwrapping it, so main goes on whatever phase 2 said
Login2Reply_ignores_failure ==
    /\ pc = "login2_wait"
    /\ \E r \in Login2Replies :
         LET res == soap_result(r, LoginWithChallengeResponse_decodes(r.body),
                                "LoginResult")
         IN /\ reply' = r
            /\ result' = res.kind
            /\ in_flight' = in_flight - 1
            /\ UNCHANGED sent
            /\ login_result' = IF res.kind = "ok" THEN res.value.LoginResult
                               ELSE login_result
            /\ pc' = "metrics"
    /\ UNCHANGED <<setvars, obsvars, clientvars, request, password, codecvars, response,
                   logs, streams, unevicted, last_logs>>

\* login_with_challenge: the phase-2 reply arrives (lib.rs:148-160, 183);
\* login returns to `to` when the status is accepted
login_with_challenge_reply(to) ==
    /\ \E r \in Login2Replies :
         LET res == soap_result(r, LoginWithChallengeResponse_decodes(r.body),
                                "LoginResult")
         IN /\ reply' = r
            /\ result' = res.kind
            /\ in_flight' = in_flight - 1
            /\ UNCHANGED sent
            /\ IF res.kind # "ok"
               THEN /\ pc' = "aborted"
                    /\ UNCHANGED login_result
               ELSE /\ login_result' = res.value.LoginResult
                    /\ pc' = IF login_status_ok(res.value.LoginResult)
                             THEN to ELSE "aborted"
    /\ UNCHANGED <<setvars, obsvars, clientvars, request, password, codecvars, response,
                   logs, streams, unevicted, last_logs>>

Login2Reply ==
    /\ pc = "login2_wait"
    /\ login_with_challenge_reply("metrics")

\* mutant of MetricsSend: main does not await the metrics call before it
\* starts the logs call
MetricsSend_no_await ==
    /\ pc = "metrics"
    /\ \E t \in Times :
         request' = SignedRequest(endpoint, private_key, cookie,
                                  "GetMultipleHNAPs", MetricsParams, t)
    /\ pc' = "logs"
    /\ in_flight' = in_flight + 1
    /\ sent' = 1
    /\ UNCHANGED <<setvars, obsvars, clientvars, reply, result, localvars>>

\* metrics: the request is sent (lib.rs:188-199)
metrics_request(to) ==
    /\ \E t \in Times :
         request' = SignedRequest(endpoint, private_key, cookie,
                                  "GetMultipleHNAPs", MetricsParams, t)
    /\ pc' = to
    /\ in_flight' = in_flight + 1
    /\ sent' = 1
    /\ UNCHANGED <<setvars, obsvars, clientvars, reply, result, localvars>>

\* main.rs:146
MetricsSend ==
    /\ pc = "metrics"
    /\ metrics_request("metrics_wait")

\* mutant of metrics_reply: a failed metrics request is sent once more
\* before the call gives up
metrics_reply_retries(to) ==
    /\ \E r \in MetricsReplies, t \in Times :
         LET res == soap_result(r, MetricsResponse_decodes(r.body),
                                "GetMultipleHNAPsResult")
         IN /\ reply' = r
            /\ result' = res.kind
            /\ IF res.kind # "ok" /\ sent < 2
               THEN /\ request' = SignedRequest(endpoint, private_key, cookie,
                                                "GetMultipleHNAPs",
                                                MetricsParams, t)
                    /\ sent' = sent + 1
                    /\ UNCHANGED <<in_flight, pc>>
               ELSE /\ in_flight' = in_flight - 1
                    /\ pc' = IF res.kind = "ok" THEN to ELSE "aborted"
                    /\ UNCHANGED <<request, sent>>
    /\ UNCHANGED <<setvars, obsvars, clientvars, localvars>>

\* metrics: the reply arrives (lib.rs:197-203)
metrics_reply(to) ==
    /\ \E r \in MetricsReplies :
         LET res == soap_result(r, MetricsResponse_decodes(r.body),
                                "GetMultipleHNAPsResult")
         IN /\ reply' = r
            /\ result' = res.kind
            /\ in_flight' = in_flight - 1
            /\ UNCHANGED sent
            /\ pc' = IF res.kind = "ok" THEN to ELSE "aborted"
    /\ UNCHANGED <<setvars, obsvars, clientvars, request, localvars>>

\* main.rs:146-150: then metrics_to_telegraf, whose error is only logged
MetricsReply ==
    /\ pc = "metrics_wait"
    /\ metrics_reply("logs")

\* logs: the request is sent (lib.rs:208-215)
logs_request(to) ==
    /\ \E t \in Times :
         request' = SignedRequest(endpoint, private_key, cookie,
                                  "GetMultipleHNAPs", LogsParams, t)
    /\ pc' = to
    /\ in_flight' = in_flight + 1
    /\ sent' = 1
    /\ UNCHANGED <<setvars, obsvars, clientvars, reply, result, localvars>>

\* main.rs:151
LogsSend ==
    /\ pc = "logs"
    /\ logs_request("logs_wait")

\* mutant of LogsReply: a failed logs call resets the session to the
\* default key and an empty cookie before it fails
LogsReply_resets_session ==
    /\ pc = "logs_wait"
    /\ \E r \in LogsReplies :
         LET res == soap_result(r, LogsResponse_decodes(r.body),
                                "GetMultipleHNAPsResult")
         IN /\ reply' = r
            /\ result' = res.kind
            /\ in_flight' = in_flight - 1
            /\ UNCHANGED sent
            /\ IF res.kind = "ok"
               THEN /\ logs' = log_parser(res.value.CustomerStatusLogList)
                    /\ streams' = <<>>
                    /\ pc' = "map"
                    /\ UNCHANGED clientvars
               ELSE /\ pc' = "aborted"
                    /\ private_key' = UNDEFINED_PRIVATE_KEY
                    /\ cookie' = ""
                    /\ UNCHANGED <<endpoint, logs, streams>>
    /\ UNCHANGED <<setvars, obsvars, request, password, codecvars, response,
                   login_result, unevicted, last_logs>>

\* logs: the reply arrives (lib.rs:212-218) and the caller holds the
\* decoded list
logs_reply(to) ==
    /\ \E r \in LogsReplies :
         LET res == soap_result(r, LogsResponse_decodes(r.body),
                                "GetMultipleHNAPsResult")
         IN /\ reply' = r
            /\ result' = res.kind
            /\ in_flight' = in_flight - 1
            /\ UNCHANGED sent
            /\ IF res.kind = "ok"
               THEN /\ logs' = log_parser(res.value.CustomerStatusLogList)
                    /\ streams' = <<>>
                    /\ pc' = to
               ELSE /\ pc' = "aborted"
                    /\ UNCHANGED <<logs, streams>>
    /\ UNCHANGED <<setvars, obsvars, clientvars, request, password, codecvars, response,
                   login_result, unevicted, last_logs>>

\* logs_to_loki starts mapping the list (main.rs:151-157, 62-65)
LogsReply ==
    /\ pc = "logs_wait"
    /\ logs_reply("map")

\* mutant of MapLogEntry: the closure inserts the entry without asking
\* contains first
MapLogEntry_always_inserts ==
    /\ pc = "map"
    /\ Len(streams) < Len(logs)
    /\ LET log_entry == logs[Len(streams) + 1]
           r == insert(Self, log_entry)
       IN /\ hash_set' = r.self.hash_set
          /\ deque' = r.self.deque
          /\ capacity' = r.self.capacity
          /\ IF r.panic \/ timestamp_negative(log_entry)
             THEN /\ pc' = "aborted"
                  /\ UNCHANGED <<streams, unevicted>>
             ELSE /\ streams' = Append(streams, Some(log_entry))
                  /\ unevicted' = (unevicted \ Range(r.ret)) \cup {log_entry}
                  /\ pc' = "map"
    /\ UNCHANGED <<obsvars, clientvars, httpvars, password, codecvars, response,
                   login_result, logs, last_logs>>

\* logs_to_loki: the map closure on the next log entry (main.rs:65-79)
MapLogEntry ==
    /\ pc = "map"
    /\ Len(streams) < Len(logs)
    /\ LET log_entry == logs[Len(streams) + 1]
       IN IF ~contains(Self, log_entry)
          THEN LET r == insert(Self, log_entry)
               IN /\ hash_set' = r.self.hash_set
                  /\ deque' = r.self.deque
                  /\ capacity' = r.self.capacity
                  /\ IF r.panic \/ timestamp_negative(log_entry)
                     THEN /\ pc' = "aborted"
                          /\ UNCHANGED <<streams, unevicted>>
                     ELSE /\ streams' = Append(streams, Some(log_entry))
                          /\ unevicted' =
                               (unevicted \ Range(r.ret)) \cup {log_entry}
                          /\ pc' = "map"
          ELSE /\ streams' = Append(streams, None)
               /\ UNCHANGED <<setvars, unevicted, pc>>
    /\ UNCHANGED <<obsvars, clientvars, httpvars, password, codecvars, response,
                   login_result, logs, last_logs>>

\* construct_loki_streams (lib.rs:75-110) keeps the Some entries, in order
\* (their grouping by level into streams is not modelled)
RECURSIVE flatten(_)
flatten(q) ==
    IF q = <<>> THEN <<>>
    ELSE (IF Head(q) = None THEN <<>> ELSE <<Head(q)[1]>>) \o flatten(Tail(q))

\* logs_to_loki: the streams are posted to Loki (main.rs:60-83)
LokiSend ==
    /\ pc = "map"
    /\ Len(streams) = Len(logs)
    /\ request' = [action |-> "loki_push", body |-> flatten(streams)]
    /\ pc' = "loki_wait"
    /\ in_flight' = in_flight + 1
    /\ UNCHANGED sent
    /\ UNCHANGED <<setvars, obsvars, clientvars, reply, result, localvars>>

\* the POST returns: a reqwest::Error panics in unwrap_or_log, any HTTP
\* response is Ok (main.rs:83, 158-159)
loki_reply ==
    /\ \E r \in {TransportError,
                 HttpReply(204, FALSE, FALSE, [Result |-> "none"]),
                 HttpReply(500, FALSE, FALSE, [Result |-> "none"])} :
         /\ reply' = r
         /\ pc' = IF r.transport = "ok" THEN "tick" ELSE "aborted"
    /\ in_flight' = in_flight - 1
    /\ UNCHANGED sent
    /\ UNCHANGED result
    \* logs_to_loki has returned: its argument and its Vec are dropped
    /\ logs' = <<>>
    /\ streams' = <<>>
    /\ UNCHANGED <<setvars, obsvars, clientvars, request, password, codecvars, response,
                   login_result, unevicted>>

LokiReply ==
    /\ pc = "loki_wait"
    /\ loki_reply
    /\ UNCHANGED last_logs

\* interval.tick().await, then the next cycle (main.rs:145, 160)
Tick ==
    /\ pc = "tick"
    /\ pc' = "metrics"
    /\ UNCHANGED <<setvars, obsvars, clientvars, httpvars, localvars>>

Next ==
    \/ Login1Send
    \/ Login1Reply
    \/ Login2Reply
    \/ MetricsSend
    \/ MetricsReply
    \/ LogsSend
    \/ LogsReply
    \/ MapLogEntry
    \/ LokiSend
    \/ LokiReply
    \/ Tick

Spec == Init /\ [][Next]_vars

---------------------------------------------------------------------------
(* RepeatSpec: the program as in Spec, observed with the log list of the
   previous poll cycle remembered in last_logs *)

\* LokiReply, and the list of the cycle that ends is remembered
RepeatLokiReply ==
    /\ pc = "loki_wait"
    /\ loki_reply
    /\ last_logs' = logs

NextRepeat ==
    \/ Login1Send
    \/ Login1Reply
    \/ Login2Reply
    \/ MetricsSend
    \/ MetricsReply
    \/ LogsSend
    \/ LogsReply
    \/ MapLogEntry
    \/ LokiSend
    \/ RepeatLokiReply
    \/ Tick

RepeatSpec == Init /\ [][NextRepeat]_vars

---------------------------------------------------------------------------
(* ClientSpec: a caller of the public methods of SOAPClient, login, metrics
   and logs, in any order and any number of times on one client
   (lib.rs:163-219); a call that panics ends the caller *)

InitClient ==
    /\ capacity = MaxCapacity
    /\ hash_set = with_capacity(capacity).hash_set
    /\ deque = with_capacity(capacity).deque
    /\ op = [name |-> "with_capacity", arg |-> None]
    /\ ret = None
    /\ inserted = <<>>
    /\ removed = 0
    /\ popped = FALSE
    \* SOAPClient::new (lib.rs:34-44)
    /\ ProgramIdle
    /\ pc = "client"

ClientLogin ==
    /\ pc = "client"
    /\ login_request("client_login1_wait")
ClientLoginChallenge ==
    /\ pc = "client_login1_wait"
    /\ login_challenge("client_login2_wait")
ClientLoginReturns ==
    /\ pc = "client_login2_wait"
    /\ login_with_challenge_reply("client")
ClientMetrics ==
    /\ pc = "client"
    /\ metrics_request("client_metrics_wait")
ClientMetricsReturns ==
    /\ pc = "client_metrics_wait"
    /\ metrics_reply("client")
ClientLogs ==
    /\ pc = "client"
    /\ logs_request("client_logs_wait")
ClientLogsReturns ==
    /\ pc = "client_logs_wait"
    /\ logs_reply("client")

NextClient ==
    \/ ClientLogin
    \/ ClientLoginChallenge
    \/ ClientLoginReturns
    \/ ClientMetrics
    \/ ClientMetricsReturns
    \/ ClientLogs
    \/ ClientLogsReturns

ClientSpec == InitClient /\ [][NextClient]_vars

---------------------------------------------------------------------------
(* CodecSpec: the field codecs of payloads/s33.rs applied to raw field
   texts.  A text is a sequence of one-character strings. *)

Digits == {"0", "1", "2", "3", "4", "5", "6", "7", "8", "9"}
DigitChars == <<"0", "1", "2", "3", "4", "5", "6", "7", "8", "9">>
\* the value of a decimal digit
digit_value(c) == (CHOOSE i \in 1..10 : DigitChars[i] = c) - 1

RECURSIVE parse_number(_)
\* str::parse of a non-empty run of decimal digits
parse_number(t) ==
    IF t = <<>> THEN 0
    ELSE 10 * parse_number(SubSeq(t, 1, Len(t) - 1)) + digit_value(t[Len(t)])

\* the character at position i of t, "" beyond its end
At(t, i) == IF i \in 1..Len(t) THEN t[i] ELSE ""
\* sep occurs in t at position i
OccursAt(t, sep, i) ==
    /\ i + Len(sep) - 1 <= Len(t)
    /\ SubSeq(t, i, i + Len(sep) - 1) = sep
\* the first position >= 1 at which sep occurs in t, 0 if there is none
find(t, sep) ==
    LET hits == {i \in 1..Len(t) : OccursAt(t, sep, i)}
    IN IF hits = {} THEN 0 ELSE CHOOSE i \in hits : \A j \in hits : i <= j

RECURSIVE split(_, _)
\* str::split(sep): the pieces between the occurrences of sep, found left
\* to right without overlap; never an empty list
split(t, sep) ==
    LET i == find(t, sep)
    IN IF i = 0 THEN <<t>>
       ELSE <<SubSeq(t, 1, i - 1)>> \o split(SubSeq(t, i + Len(sep), Len(t)), sep)

\* the last position of the longest run of characters of class that starts
\* at position i of t; i - 1 when the run is empty
run_end(t, i, class) ==
    LET stops == {j \in i..Len(t) : t[j] \notin class}
    IN IF stops = {} THEN Len(t)
       ELSE (CHOOSE j \in stops : \A k \in stops : j <= k) - 1

\* the regex of log_parser (s33.rs:81-82) tried at position i of line:
\*   0\^(?P<time>[:\d]+)\^(?P<date>[/\d]+)\^(?P<level>\d)\^(?P<message>.*)
\* The classes of time and date exclude "^", so each group is the longest
\* run of its class and must be followed by "^".
log_regex_at(line, i) ==
    LET t1 == i + 2
        t2 == run_end(line, t1, Digits \cup {":"})
        d1 == t2 + 2
        d2 == run_end(line, d1, Digits \cup {"/"})
    IN IF /\ At(line, i) = "0" /\ At(line, i + 1) = "^"
          /\ t2 >= t1 /\ At(line, t2 + 1) = "^"
          /\ d2 >= d1 /\ At(line, d2 + 1) = "^"
          /\ At(line, d2 + 2) \in Digits /\ At(line, d2 + 3) = "^"
       THEN Some([time |-> SubSeq(line, t1, t2),
                  date |-> SubSeq(line, d1, d2),
                  level |-> line[d2 + 2],
                  message |-> SubSeq(line, d2 + 4, Len(line))])
       ELSE None

\* Regex::captures (s33.rs:86-88): the match at the leftmost position that
\* has one (the pattern is not anchored), None when no position has
log_regex_captures(line) ==
    LET starts == {i \in 1..Len(line) : log_regex_at(line, i) # None}
    IN IF starts = {} THEN None
       ELSE log_regex_at(line, CHOOSE i \in starts : \A j \in starts : i <= j)

\* the days of month m of year y
days_in_month(m, y) ==
    IF m \in {4, 6, 9, 11} THEN 30
    ELSE IF m # 2 THEN 31
    ELSE IF (y % 4 = 0 /\ y % 100 # 0) \/ y % 400 = 0 THEN 29 ELSE 28

\* NaiveDateTime::parse_from_str(date ++ " " ++ time, "%d/%m/%Y %T")
\* (s33.rs:91-94) on runs of [/\d] and [:\d]: three numbers each, of one or
\* two digits (the year of up to four), in the ranges of the calendar
\* and the clock; None when chrono returns Err
parse_datetime(date, time) ==
    LET d == split(date, <<"/">>)
        t == split(time, <<":">>)
    IN IF /\ Len(d) = 3 /\ Len(t) = 3
          /\ \A k \in {1, 2} : Len(d[k]) \in {1, 2}
          /\ Len(d[3]) \in 1..4
          /\ \A k \in 1..3 : Len(t[k]) \in {1, 2}
       THEN LET day == parse_number(d[1])
                month == parse_number(d[2])
                year == parse_number(d[3])
                hour == parse_number(t[1])
                minute == parse_number(t[2])
                second == parse_number(t[3])
            IN IF /\ month \in 1..12
                  /\ day \in 1..days_in_month(month, year)
                  /\ hour \in 0..23 /\ minute \in 0..59 /\ second \in 0..60
               THEN Some([year |-> year, month |-> month, day |-> day,
                          hour |-> hour, minute |-> minute, second |-> second])
               ELSE None
       ELSE None

\* mutant of level_of_digit: the digits without a level of their own map
\* to Info
level_of_digit_default_info(n) ==
    CASE n = 3 -> "Error"
      [] n = 4 -> "Warn"
      [] n = 5 -> "Info"
      [] n = 6 -> "Debug"
      [] OTHER -> "Info"

\* the match on the parsed level digit (s33.rs:97-108)
level_of_digit(n) ==
    CASE n = 3 -> "Error"
      [] n = 4 -> "Warn"
      [] n = 5 -> "Info"
      [] n = 6 -> "Debug"
      [] OTHER -> "Error"

\* the body of the loop of log_parser on one line (s33.rs:85-116): None
\* when the captures or the date-time parse are unwrapped on a failure
log_line(line) ==
    LET captures == log_regex_captures(line)
    IN IF captures = None THEN None
       ELSE LET c == captures[1]
                naive_date == parse_datetime(c.date, c.time)
            IN IF naive_date = None THEN None
               ELSE Some([timestamp |-> naive_date[1],
                          level |-> level_of_digit(parse_number(<<c.level>>)),
                          message |-> c.message])

\* log_parser on the text of the field (s33.rs:76-120):
\*   [kind |-> "panic"]             a line made it panic
\*   [kind |-> "ok", value |-> q]   Ok(log_entries)
log_parser_text(t) ==
    LET lines == split(t, <<"}", "-", "{">>)
    IN IF \E i \in 1..Len(lines) : log_line(lines[i]) = None
       THEN [kind |-> "panic"]
       ELSE [kind |-> "ok",
             value |-> [i \in 1..Len(lines) |-> log_line(lines[i])[1]]]

\* the records a log field is joined from: wf says whether the record
\* follows the grammar 0^<time>^<date>^<level-digit>^<message>
LogRecord(prefix, time, date, level, message, timestamp) ==
    [wf |-> TRUE,
     text |-> prefix \o <<"0", "^">> \o time \o <<"^">> \o date \o <<"^">>
                \o <<level>> \o <<"^">> \o message,
     level |-> level, message |-> message, timestamp |-> timestamp]
NotLogRecord(text) ==
    [wf |-> FALSE, text |-> text,
     level |-> "", message |-> <<>>, timestamp |-> None]

Time080910 == <<"0", "8", ":", "0", "9", ":", "1", "0">>
Date2023 == <<"0", "1", "/", "0", "2", "/", "2", "0", "2", "3">>
Date1969 == <<"3", "1", "/", "1", "2", "/", "1", "9", "6", "9">>
Date4513 == <<"4", "5", "/", "1", "3", "/", "2", "0", "2", "3">>
Stamp2023 ==
    [year |-> 2023, month |-> 2, day |-> 1, hour |-> 8, minute |-> 9, second |-> 10]
Stamp1969 ==
    [year |-> 1969, month |-> 12, day |-> 31, hour |-> 8, minute |-> 9, second |-> 10]
LogMessages == {<<"u", "p">>, <<"a", "^", "4", "^">>}

LogRecords ==
    {LogRecord(<<>>, Time080910, Date2023, l, m, Stamp2023) :
        l \in Digits, m \in LogMessages}
    \cup {LogRecord(<<"x", " ">>, Time080910, Date2023, "4", <<>>, Stamp2023),
          LogRecord(<<>>, Time080910, Date1969, "6", <<"u", "p">>, Stamp1969)}
    \cup {NotLogRecord(<<>>),
          NotLogRecord(<<"u", "p">>),
          \* a level of two digits
          NotLogRecord(<<"0", "^">> \o Time080910 \o <<"^">> \o Date2023
                          \o <<"^", "1", "0", "^", "u", "p">>),
          \* a date that is none
          NotLogRecord(<<"0", "^">> \o Time080910 \o <<"^">> \o Date4513
                          \o <<"^", "3", "^", "u", "p">>)}

RECURSIVE join(_, _)
\* the texts of the records q joined by sep
join(q, sep) ==
    IF Len(q) = 1 THEN q[1].text
    ELSE q[1].text \o sep \o join(Tail(q), sep)

LogFields ==
    {[text |-> join(q, <<"}", "-", "{">>), records |-> q] :
        q \in SeqsUpTo(LogRecords, MaxRecords)}

\* the ASCII letters and the regex class \w over them
Letters ==
    {"a", "b", "c", "d", "e", "f", "g", "h", "i", "j", "k", "l", "m", "n",
     "o", "p", "q", "r", "s", "t", "u", "v", "w", "x", "y", "z", "A", "B",
     "C", "D", "E", "F", "G", "H", "I", "J", "K", "L", "M", "N", "O", "P",
     "Q", "R", "S", "T", "U", "V", "W", "X", "Y", "Z"}
WordChars == Letters \cup Digits \cup {"_"}

RECURSIVE match_fields(_, _, _)
\* a regex that is a sequence of groups, each a non-empty run of the
\* characters of one class followed by "\^", tried at position i of line:
\* the texts of the groups, None when it does not match there.  No class
\* holds "^", so each group is the longest run of its class.
match_fields(line, i, classes) ==
    IF classes = <<>> THEN Some(<<>>)
    ELSE LET e == run_end(line, i, Head(classes))
         IN IF e >= i /\ At(line, e + 1) = "^"
            THEN LET rest == match_fields(line, e + 2, Tail(classes))
                 IN IF rest = None THEN None
                    ELSE Some(<<SubSeq(line, i, e)>> \o rest[1])
            ELSE None

\* Regex::is_match / Regex::captures (s33.rs:196-200): the match at the
\* leftmost position that has one, None when no position has
captures_of(line, classes) ==
    LET starts == {i \in 1..Len(line) : match_fields(line, i, classes) # None}
    IN IF starts = {} THEN None
       ELSE match_fields(line, CHOOSE i \in starts : \A j \in starts : i <= j,
                         classes)

\* DOWNSTREAM_CHANNEL_PATTERN (s33.rs:181): index, lock_status, modulation,
\* channel_id, frequency, power, snr, corrected, uncorrectables
DOWNSTREAM_CHANNEL_PATTERN ==
    <<Digits, WordChars, WordChars \cup {" "}, Digits, Digits, Digits, Digits,
      Digits, Digits>>
\* UPSTREAM_CHANNEL_REGEX (s33.rs:182): index, lock_status, modulation,
\* channel_id, width, frequency, power
UPSTREAM_CHANNEL_REGEX ==
    <<Digits, WordChars, WordChars \cup {" ", "-"}, Digits, Digits, Digits,
      Digits \cup {"."}>>

RECURSIVE strip_zeros(_)
\* a run of digits without its leading zeros
strip_zeros(t) ==
    IF Len(t) > 1 /\ t[1] = "0" THEN strip_zeros(Tail(t)) ELSE t

\* a <= b for two runs of digits without leading zeros
decimal_le(a, b) ==
    \/ Len(a) < Len(b)
    \/ /\ Len(a) = Len(b)
       /\ \/ a = b
          \/ \E k \in 1..Len(a) :
               /\ \A j \in 1..(k - 1) : a[j] = b[j]
               /\ digit_value(a[k]) < digit_value(b[k])

\* the largest values of u8, u32 and u64, in decimal
U8_MAX == <<"2", "5", "5">>
U32_MAX == <<"4", "2", "9", "4", "9", "6", "7", "2", "9", "5">>
U64_MAX ==
    <<"1", "8", "4", "4", "6", "7", "4", "4", "0", "7", "3", "7", "0", "9", "5", "5", "1", "6", "1", "5">>

\* str::parse into an unsigned type with largest value max, on a non-empty
\* run of digits: Some(the number, written without leading zeros), None
\* when parse returns Err (the number does not fit)
parse_unsigned(t, max) ==
    IF decimal_le(strip_zeros(t), max) THEN Some(strip_zeros(t)) ELSE None

\* str::parse::<f64> on a non-empty run of digits and dots: Some(the text),
\* None when parse returns Err (no digit, or more than one dot)
parse_f64(t) ==
    IF /\ \E i \in 1..Len(t) : t[i] \in Digits
       /\ Cardinality({i \in 1..Len(t) : t[i] = "."}) <= 1
    THEN Some(t) ELSE None

\* the match on the modulation text (s33.rs:213-218)
modulation_of(t) ==
    IF t = <<"Q", "A", "M", "2", "5", "6">> THEN "QAM256"
    ELSE IF t = <<"O", "F", "D", "M", " ", "P", "L", "C">> THEN "OFDMPLC"
    ELSE IF t = <<"S", "C", "-", "Q", "A", "M">> THEN "SCQAM"
    ELSE "Unknown"

\* the channel built from the captures f of the downstream pattern
\* (s33.rs:205-247): None when an unwrap of a parse fails
downstream_channel(f) ==
    LET channel_id == parse_unsigned(f[4], U8_MAX)
        frequency == parse_unsigned(f[5], U32_MAX)
        power == parse_unsigned(f[6], U8_MAX)
        snr == parse_unsigned(f[7], U8_MAX)
        corrected == parse_unsigned(f[8], U32_MAX)
        uncorrectables == parse_unsigned(f[9], U32_MAX)
    IN IF None \in {channel_id, frequency, power, snr, corrected, uncorrectables}
       THEN None
       ELSE Some([kind |-> "Downstream",
                  channel_id |-> channel_id[1],
                  lock_status |-> f[2] = <<"L", "o", "c", "k", "e", "d">>,
                  modulation |-> modulation_of(f[3]),
                  frequency |-> frequency[1],
                  power |-> power[1],
                  snr |-> snr[1],
                  corrected |-> corrected[1],
                  uncorrectables |-> uncorrectables[1]])

\* the channel built from the captures f of the upstream pattern
\* (s33.rs:205-224, 248-258): None when an unwrap of a parse fails
upstream_channel(f) ==
    LET channel_id == parse_unsigned(f[4], U8_MAX)
        width == parse_unsigned(f[5], U32_MAX)
        frequency == parse_unsigned(f[6], U32_MAX)
        power == parse_f64(f[7])
    IN IF None \in {channel_id, width, frequency, power}
       THEN None
       ELSE Some([kind |-> "Upstream",
                  channel_id |-> channel_id[1],
                  lock_status |-> f[2] = <<"L", "o", "c", "k", "e", "d">>,
                  modulation |-> modulation_of(f[3]),
                  frequency |-> frequency[1],
                  width |-> width[1],
                  power |-> power[1]])

\* mutant of channel_line: the upstream pattern is tried first
channel_line_upstream_first(line) ==
    LET down == captures_of(line, DOWNSTREAM_CHANNEL_PATTERN)
        up == captures_of(line, UPSTREAM_CHANNEL_REGEX)
    IN IF up # None
       THEN IF upstream_channel(up[1]) = None THEN [kind |-> "panic"]
            ELSE [kind |-> "ok", channel |-> upstream_channel(up[1])[1]]
       ELSE IF down # None
       THEN IF downstream_channel(down[1]) = None THEN [kind |-> "panic"]
            ELSE [kind |-> "ok", channel |-> downstream_channel(down[1])[1]]
       ELSE [kind |-> "err", line |-> line]

\* the body of the loop of channel_parser on one line (s33.rs:194-260):
\*   [kind |-> "ok", channel |-> c]   a channel is pushed
\*   [kind |-> "err", line |-> l]     return Err("Unable to match l ..")
\*   [kind |-> "panic"]               an unwrap of a parse failed
channel_line(line) ==
    LET down == captures_of(line, DOWNSTREAM_CHANNEL_PATTERN)
        up == captures_of(line, UPSTREAM_CHANNEL_REGEX)
    IN IF down # None
       THEN IF downstream_channel(down[1]) = None THEN [kind |-> "panic"]
            ELSE [kind |-> "ok", channel |-> downstream_channel(down[1])[1]]
       ELSE IF up # None
       THEN IF upstream_channel(up[1]) = None THEN [kind |-> "panic"]
            ELSE [kind |-> "ok", channel |-> upstream_channel(up[1])[1]]
       ELSE [kind |-> "err", line |-> line]

\* channel_parser on the text of the field (s33.rs:183-266): the lines are
\* decoded in order and the first one that does not yield a channel ends
\* the call, with its Err or its panic; otherwise
\*   [kind |-> "ok", value |-> q]   Ok(channels)
channel_parser_text(t) ==
    LET lines == split(t, <<"|", "+", "|">>)
        bad == {i \in 1..Len(lines) : channel_line(lines[i]).kind # "ok"}
    IN IF bad = {}
       THEN [kind |-> "ok",
             value |-> [i \in 1..Len(lines) |-> channel_line(lines[i]).channel]]
       ELSE channel_line(lines[CHOOSE i \in bad : \A j \in bad : i <= j])

RECURSIVE caret_joined(_)
\* the fields q each followed by "^"
caret_joined(q) ==
    IF q = <<>> THEN <<>> ELSE Head(q) \o <<"^">> \o caret_joined(Tail(q))

\* the records a channel field is joined from.  grammar says which pattern
\* the record follows ("none": neither), fits whether each of its numbers
\* parses into the type of its field.
DownstreamRecord(channel_id, frequency, power, snr, corrected, uncorrectables, fits) ==
    [grammar |-> "down", fits |-> fits,
     text |-> caret_joined(<<<<"1">>, <<"L", "o", "c", "k", "e", "d">>,
                             <<"Q", "A", "M", "2", "5", "6">>,
                             channel_id, frequency, power, snr, corrected,
                             uncorrectables>>)]
UpstreamRecord(modulation, channel_id, width, frequency, power, fits) ==
    [grammar |-> "up", fits |-> fits,
     text |-> caret_joined(<<<<"2">>, <<"L", "o", "c", "k", "e", "d">>, modulation,
                             channel_id, width, frequency, power>>)]
NotChannelRecord(text) == [grammar |-> "none", fits |-> FALSE, text |-> text]

Num5 == <<"5">>
Num40 == <<"4", "0">>
Num255 == <<"2", "5", "5">>
Num256 == <<"2", "5", "6">>
Freq507 == <<"5", "0", "7", "0", "0", "0", "0", "0", "0">>
Num2Pow32 == <<"4", "2", "9", "4", "9", "6", "7", "2", "9", "6">>
ScQam == <<"S", "C", "-", "Q", "A", "M">>
Power443 == <<"4", "4", ".", "3">>

ChannelRecords ==
    {DownstreamRecord(Num5, Freq507, Num5, Num40, Num5, Num5, TRUE),
     DownstreamRecord(Num255, U32_MAX, Num255, Num255, U32_MAX, U32_MAX, TRUE),
     DownstreamRecord(Num256, Freq507, Num5, Num40, Num5, Num5, FALSE),
     DownstreamRecord(Num5, Num2Pow32, Num5, Num40, Num5, Num5, FALSE),
     DownstreamRecord(Num5, Freq507, Num256, Num40, Num5, Num5, FALSE),
     DownstreamRecord(Num5, Freq507, Num5, Num256, Num5, Num5, FALSE),
     DownstreamRecord(Num5, Freq507, Num5, Num40, Num2Pow32, Num5, FALSE),
     DownstreamRecord(Num5, Freq507, Num5, Num40, Num5, Num2Pow32, FALSE),
     UpstreamRecord(ScQam, Num5, Freq507, Freq507, Power443, TRUE),
     UpstreamRecord(<<"O", "F", "D", "M", "A">>, Num255, U32_MAX, U32_MAX, Num40, TRUE),
     UpstreamRecord(ScQam, Num256, Freq507, Freq507, Power443, FALSE),
     UpstreamRecord(ScQam, Num5, Num2Pow32, Freq507, Power443, FALSE),
     UpstreamRecord(ScQam, Num5, Freq507, Num2Pow32, Power443, FALSE),
     UpstreamRecord(ScQam, Num5, Freq507, Freq507, <<"4", ".", "4", ".", "3">>, FALSE),
     NotChannelRecord(<<>>),
     NotChannelRecord(<<"u", "p">>),
     \* the downstream record without its last "^"
     NotChannelRecord(<<"1", "^", "L", "^", "Q", "^", "5", "^", "5", "^", "5">>)}

ChannelFields ==
    {[text |-> join(q, <<"|", "+", "|">>), records |-> q] :
        q \in SeqsUpTo(ChannelRecords, MaxRecords)}

RECURSIVE to_digits(_)
\* a natural number in decimal
to_digits(n) ==
    IF n < 10 THEN <<DigitChars[n + 1]>>
    ELSE to_digits(n \div 10) \o <<DigitChars[(n % 10) + 1]>>

RECURSIVE times_small(_, _, _)
\* the decimal number t times the natural number k, plus carry, in decimal
\* (t may be empty: the result is then the carry, empty when it is 0)
times_small(t, k, carry) ==
    IF t = <<>> THEN (IF carry = 0 THEN <<>> ELSE to_digits(carry))
    ELSE LET v == digit_value(t[Len(t)]) * k + carry
         IN times_small(SubSeq(t, 1, Len(t) - 1), k, v \div 10)
                \o <<DigitChars[(v % 10) + 1]>>

RECURSIVE plus_carry(_, _, _)
\* the sum of the decimal numbers a and b and the carry, in decimal
plus_carry(a, b, carry) ==
    IF a = <<>> /\ b = <<>> THEN (IF carry = 0 THEN <<>> ELSE to_digits(carry))
    ELSE LET x == IF a = <<>> THEN 0 ELSE digit_value(a[Len(a)])
             y == IF b = <<>> THEN 0 ELSE digit_value(b[Len(b)])
             v == x + y + carry
         IN plus_carry(IF a = <<>> THEN a ELSE SubSeq(a, 1, Len(a) - 1),
                       IF b = <<>> THEN b ELSE SubSeq(b, 1, Len(b) - 1),
                       v \div 10)
                \o <<DigitChars[(v % 10) + 1]>>

\* product and sum of decimal numbers, without leading zeros
times(t, k) == strip_zeros(times_small(t, k, 0))
plus(a, b) == strip_zeros(plus_carry(a, b, 0))

RECURSIVE match_numbers(_, _, _)
\* a regex that is a sequence of groups \d+, each followed by a literal
\* text, tried at position i of line: the texts of the groups, None when
\* it does not match there.  No literal starts with a digit, so each group
\* is the longest run of digits.
match_numbers(line, i, literals) ==
    IF literals = <<>> THEN Some(<<>>)
    ELSE LET e == run_end(line, i, Digits)
             lit == Head(literals)
         IN IF e >= i /\ OccursAt(line, lit, e + 1)
            THEN LET rest == match_numbers(line, e + 1 + Len(lit), Tail(literals))
                 IN IF rest = None THEN None
                    ELSE Some(<<SubSeq(line, i, e)>> \o rest[1])
            ELSE None

\* the literals of the regex of duration_deserializer (s33.rs:18-19):
\*   (?P<days>\d+) days (?P<hours>\d+)h:(?P<minutes>\d+)m:(?P<seconds>\d+)s
DurationLiterals ==
    <<<<" ", "d", "a", "y", "s", " ">>, <<"h", ":">>, <<"m", ":">>, <<"s">>>>

\* re.captures(s) (s33.rs:20): the match at the leftmost position that has
\* one (the pattern is not anchored), None when no position has
duration_captures(t) ==
    LET starts == {i \in 1..Len(t) : match_numbers(t, i, DurationLiterals) # None}
    IN IF starts = {} THEN None
       ELSE match_numbers(t, CHOOSE i \in starts : \A j \in starts : i <= j,
                          DurationLiterals)

\* days * 24 * 60 * 60 + hours * 60 * 60 + minutes * 60 + seconds
\* (s33.rs:49-52), before the width of u64 is applied
duration_seconds(days, hours, minutes, seconds) ==
    plus(plus(plus(times(days, 86400), times(hours, 3600)),
              times(minutes, 60)), seconds)

\* the outcomes of duration_deserializer on the text of the field
\* (s33.rs:13-57):
\*   [kind |-> "panic"]                 an unwrap failed: no match, or a
\*                                      number that does not fit u64
\*   [kind |-> "ok", seconds |-> n]     Ok(Duration::new(n, 0))
\* When the sum does not fit u64 the arithmetic overflows: a build with
\* overflow checks panics, a build without wraps the sum
\* ([kind |-> "wrapped"]: Ok of the sum modulo 2^64).
duration_deserializer(t) ==
    LET captures == duration_captures(t)
    IN IF captures = None THEN {[kind |-> "panic"]}
       ELSE LET days == parse_unsigned(captures[1][1], U64_MAX)
                hours == parse_unsigned(captures[1][2], U64_MAX)
                minutes == parse_unsigned(captures[1][3], U64_MAX)
                seconds == parse_unsigned(captures[1][4], U64_MAX)
            IN IF None \in {days, hours, minutes, seconds}
               THEN {[kind |-> "panic"]}
               ELSE LET sum == duration_seconds(days[1], hours[1],
                                                minutes[1], seconds[1])
                    IN IF decimal_le(sum, U64_MAX)
                       THEN {[kind |-> "ok", seconds |-> sum]}
                       ELSE {[kind |-> "panic"], [kind |-> "wrapped"]}

\* a number in decimal, of at least two digits
pad2(n) == IF n < 10 THEN <<"0">> \o to_digits(n) ELSE to_digits(n)

\* the texts a duration field holds.  shape says whether the text is of
\* the shape "<D> days <H>h:<M>m:<S>s" ("exact"), holds such a text among
\* others ("inside") or neither ("none"); total is the number
\* D*86400 + H*3600 + M*60 + S for the numbers written in it, in decimal.
DurationText(days, hours, minutes, seconds, total) ==
    [shape |-> "exact",
     text |-> days \o <<" ", "d", "a", "y", "s", " ">> \o hours \o <<"h", ":">>
                \o minutes \o <<"m", ":">> \o seconds \o <<"s">>,
     total |-> total]
NotDurationText(shape, text) == [shape |-> shape, text |-> text, total |-> <<>>]

DurationDays == {0, 2, MaxDays}
DurationHours == {0, 3, 23, 99}
DurationMinutes == {4, 59}
DurationSeconds == {0, 5}
Num2Pow64 ==
    <<"1", "8", "4", "4", "6", "7", "4", "4", "0", "7", "3", "7", "0", "9", "5", "5", "1", "6", "1", "6">>

\* 2^64 + 59, (2^64 - 1) * 86400 and 2^64 * 86400
Num2Pow64Plus59 ==
    <<"1", "8", "4", "4", "6", "7", "4", "4", "0", "7", "3", "7", "0", "9", "5", "5", "1", "6", "7", "5">>
U64MaxDays ==
    <<"1", "5", "9", "3", "7", "9", "8", "6", "8", "7", "9", "6", "8", "5", "0", "5", "2", "5", "9", "5", "3", "6", "0", "0", "0">>
Num2Pow64Days ==
    <<"1", "5", "9", "3", "7", "9", "8", "6", "8", "7", "9", "6", "8", "5", "0", "5", "2", "5", "9", "6", "2", "2", "4", "0", "0">>

DurationTexts ==
    {DurationText(to_digits(d), pad2(h), pad2(m), pad2(sec),
                  to_digits(d * 86400 + h * 3600 + m * 60 + sec)) :
        d \in DurationDays, h \in DurationHours, m \in DurationMinutes,
        sec \in DurationSeconds}
    \cup {\* numbers at and beyond the width of u64
          DurationText(<<"0">>, <<"0">>, <<"0">>, U64_MAX, U64_MAX),
          DurationText(<<"0">>, <<"0">>, <<"1">>, U64_MAX, Num2Pow64Plus59),
          DurationText(U64_MAX, <<"0">>, <<"0">>, <<"0">>, U64MaxDays),
          DurationText(Num2Pow64, <<"0">>, <<"0">>, <<"0">>, Num2Pow64Days),
          DurationText(<<"0">>, <<"0">>, <<"0">>, Num2Pow64, Num2Pow64)}
    \cup {NotDurationText("inside",
                          <<"u", "p", " ">>
                            \o DurationText(<<"2">>, <<"0", "3">>, <<"0", "4">>,
                                            <<"0", "5">>, <<>>).text
                            \o <<" ">>),
          NotDurationText("none", <<>>),
          \* "days" is missing
          NotDurationText("none", <<"0", "3", "h", ":", "0", "4", "m", ":", "0", "5", "s">>),
          NotDurationText("none", <<"2", " ", "0", "3", "h", ":", "0", "4", "m", ":", "0", "5", "s">>),
          NotDurationText("none", <<"2", " ", "d", "a", "y", "s", " ", "0", "3", "h", ":", "0", "4", "m">>),
          NotDurationText("none", <<"-", "2", " ", "d", "a", "y", "s", " ", "0", "3", "h", ":", "0", "4", "m", ":", "0", "5">>)}

DurationFields == {[text |-> d.text, records |-> <<d>>] : d \in DurationTexts}

InitCodec ==
    /\ capacity = MaxCapacity
    /\ hash_set = with_capacity(capacity).hash_set
    /\ deque = with_capacity(capacity).deque
    /\ op = [name |-> "with_capacity", arg |-> None]
    /\ ret = None
    /\ inserted = <<>>
    /\ removed = 0
    /\ popped = FALSE
    /\ endpoint \in Endpoints
    /\ private_key = UNDEFINED_PRIVATE_KEY
    /\ cookie = ""
    /\ request = NoRequest
    /\ reply = NoReply
    /\ result = "none"
    /\ in_flight = 0
    /\ sent = 0
    /\ password \in Passwords
    /\ response = NoResponse
    /\ login_result = "none"
    /\ logs = <<>>
    /\ streams = <<>>
    /\ unevicted = {}
    /\ last_logs = <<>>
    /\ parsed = NotParsed
    /\ \/ field \in LogFields /\ pc = "codec"
       \/ field \in ChannelFields /\ pc = "channel_codec"
       \/ field \in DurationFields /\ pc = "duration_codec"

\* serde hands the CustomerStatusLogList string to log_parser (s33.rs:404-405)
DecodeLogList ==
    /\ pc = "codec"
    /\ parsed' = log_parser_text(field.text)
    /\ pc' = "decoded"
    /\ UNCHANGED <<setvars, obsvars, clientvars, httpvars, password, response,
                   login_result, logs, streams, unevicted, last_logs, field>>

\* serde hands a channel string to channel_parser (s33.rs:359, 369)
DecodeChannels ==
    /\ pc = "channel_codec"
    /\ parsed' = channel_parser_text(field.text)
    /\ pc' = "channels_decoded"
    /\ UNCHANGED <<setvars, obsvars, clientvars, httpvars, password, response,
                   login_result, logs, streams, unevicted, last_logs, field>>

\* serde hands the up-time string to duration_deserializer (s33.rs:322)
DecodeDuration ==
    /\ pc = "duration_codec"
    /\ parsed' \in duration_deserializer(field.text)
    /\ pc' = "duration_decoded"
    /\ UNCHANGED <<setvars, obsvars, clientvars, httpvars, password, response,
                   login_result, logs, streams, unevicted, last_logs, field>>

NextCodec ==
    \/ DecodeLogList
    \/ DecodeChannels
    \/ DecodeDuration

CodecSpec == InitCodec /\ [][NextCodec]_vars

---------------------------------------------------------------------------
(* Helpers for the statements about the dedup set *)

Distinct(q) == \A i, j \in 1..Len(q) : i # j => q[i] # q[j]
\* the last n values of q
LastN(q, n) == {q[i] : i \in {k \in 1..Len(q) : k > Len(q) - n}}
\* the step just taken was a call of insert that returned
InsertReturned == op'.name = "insert" /\ pc' = "api"

\* C1: for every capacity c >= 0 the number of stored items, in the deque
\* and in the hash set, never exceeds c.
C1_NeverExceedsCapacity ==
    /\ Len(deque) <= capacity
    /\ Cardinality(hash_set) <= capacity

\* C2: after every operation, also after inserting an item that is already
\* stored, the size of the hash set equals the length of the deque.
C2_IndexMatchesQueue == Cardinality(hash_set) = Len(deque)

\* C3: from an empty set of capacity c, after inserting c+1 pairwise
\* distinct items exactly the last c inserted items are members.
C3_LastCapacityAreMembers ==
    (/\ ~popped
     /\ pc = "api"
     /\ Len(inserted) = capacity + 1
     /\ Distinct(inserted))
    => \A x \in Items : contains(Self, x) <=> x \in LastN(inserted, capacity)

C5_ContainsAfterEviction ==
    [][(InsertReturned /\ ret' # None)
        => (/\ ~contains(Self', ret'[1])
            /\ \A x \in Range(deque') : contains(Self', x)
            /\ contains(Self', op'.arg[1]))]_vars

C18_PopFrontRemovesOldest ==
    [][op'.name = "pop_front"
        => (/\ pc' = "api"
            /\ capacity' = capacity
            /\ IF deque # <<>>
               THEN /\ ret' = Some(Head(deque))
                    /\ deque' = Tail(deque)
                    /\ hash_set' = hash_set \ {Head(deque)}
               ELSE /\ ret' = None
                    /\ deque' = deque
                    /\ hash_set' = hash_set)]_vars

\* C19: whenever insert or pop_front takes off the order queue an item
\* that is absent from the membership index, the call aborts with the
\* fatal error: it does not return, and nothing is returned to the caller.
C19_DesyncEvictionAborts ==
    [][(/\ op'.name \in {"insert", "pop_front"}
        /\ removed' = removed + 1
        /\ Head(deque) \notin hash_set)
        => (/\ pc' = "aborted"
            /\ ret' = None
            /\ hash_set' = hash_set)]_vars

\* an insert has aborted in its eviction: the item it took off the queue
\* was not in the membership index
C19_Witness ==
    /\ pc = "aborted"
    /\ op.name = "insert"
    /\ removed >= 1
    /\ inserted[removed] \notin hash_set
    /\ Len(deque) = Len(inserted) - removed

---------------------------------------------------------------------------
(* Statements about the program *)

\* the map closure has just pushed Some(entry): the entry goes to Loki
Forwards(e) ==
    /\ pc = "map"
    /\ Len(streams') = Len(streams) + 1
    /\ streams'[Len(streams')] = Some(e)

\* C6: a log record is forwarded only if it is not a member when examined,
\* and becomes a member in that step; a record forwarded before is not
\* forwarded again unless it was evicted in between.
C6_ForwardsOnlyNonMembers ==
    [][\A e \in Entries :
         Forwards(e) => (/\ e \notin hash_set
                         /\ e \in hash_set'
                         /\ e \notin unevicted)]_vars

\* in one cycle a record was forwarded and a member was skipped
C6_Witness ==
    /\ pc = "map"
    /\ \E i, j \in 1..Len(streams) : streams[i] = None /\ streams[j] # None
    /\ unevicted # {}

\* the positions of main at which the session is Authenticated
PollPcs == {"metrics", "metrics_wait", "logs", "logs_wait", "map",
            "loki_wait", "tick"}
IsPhase1(req) == req.action = "Login" /\ req.body = Phase1Params
IsPhase2(req) == req.action = "Login" /\ req.body # Phase1Params
IsPoll(req) == req.action = "GetMultipleHNAPs"
\* the status a reply carries for the caller, "none" when it has none
LoginStatusOf(r) ==
    IF /\ r.transport = "ok" /\ r.status = 200 /\ r.json /\ r.envelope
       /\ "LoginResult" \in DOMAIN r.body
    THEN r.body.LoginResult ELSE "none"

\* C7: login ends Authenticated iff the phase-2 status is "OK"; with any
\* other status it ends in the terminal state "aborted", from which no
\* step (no metrics, logs or other request) is taken.
C7_AuthenticatedIffStatusOK ==
    [][/\ pc = "login2_wait" =>
            IF LoginStatusOf(reply') = "OK"
            THEN pc' = "metrics" ELSE pc' = "aborted"
       /\ (pc' \in PollPcs /\ pc \notin PollPcs) =>
            (pc = "login2_wait" /\ LoginStatusOf(reply') = "OK")
       /\ ~(pc = "aborted" /\ login_result # "OK")]_vars

\* the login has failed on the status OK_CHANGED and the last request sent
\* is the phase-2 request
C7_Witness ==
    /\ pc = "aborted"
    /\ login_result = "OK_CHANGED"
    /\ IsPhase2(request)

\* a phase-1 reply that login cannot go on with, as C8 lists them
Phase1Bad(r) ==
    \/ r.transport # "ok"
    \/ r.status # 200
    \/ ~r.json
    \/ ~r.envelope
    \/ ~({"Challenge", "PublicKey"} \subseteq DOMAIN r.body)

\* C8: when the phase-1 reply lacks the challenge or the public key, or
\* phase 1 fails by transport error, non-200 status or JSON decode failure,
\* login aborts and no phase-2 request is ever sent.
C8_BadPhase1NeverReachesPhase2 ==
    [][/\ (pc = "login1_wait" /\ Phase1Bad(reply')) =>
            (pc' = "aborted" /\ request' = request)
       /\ (IsPhase2(request') /\ request' # request) =>
            (pc = "login1_wait" /\ ~Phase1Bad(reply'))
       /\ ~(pc = "aborted" /\ IsPhase1(request))]_vars

\* login has aborted on a 200 reply without the challenge
C8_Witness ==
    /\ pc = "aborted"
    /\ IsPhase1(request)
    /\ reply.transport = "ok" /\ reply.status = 200 /\ reply.envelope
    /\ "Challenge" \notin DOMAIN reply.body
    /\ "PublicKey" \in DOMAIN reply.body

\* req is signed with key and carries the cookie uid and the key
SignedWith(req, key, uid) ==
    /\ \E t \in Times :
         req.hnap_auth = hex_hmac_md5(key, t \o SOAP_DOMAIN \o req.action)
                            \o " " \o t
    /\ req.cookie = "Secure; uid=" \o uid \o "; PrivateKey=" \o key

\* C9: the phase-2 request and every metrics or logs request are signed
\* with HMAC-MD5(public_key ++ password, challenge) and carry the cookie of
\* the phase-1 reply; none is signed with the default private key.
C9_SignedWithDerivedKey ==
    (IsPhase2(request) \/ IsPoll(request)) =>
        /\ SignedWith(request,
                      hex_hmac_md5(response.PublicKey \o password, response.Challenge),
                      response.Cookie)
        /\ ~SignedWith(request, UNDEFINED_PRIVATE_KEY, response.Cookie)
        /\ ~SignedWith(request, UNDEFINED_PRIVATE_KEY, "")

\* a logs request of a later cycle is in flight
C9_Witness ==
    /\ pc = "logs_wait"
    /\ IsPoll(request)
    /\ request.body = LogsParams
    /\ hash_set # {}

\* C10: private key and cookie change only in the login sequence; every
\* step of metrics() and logs(), whatever its outcome, leaves private key,
\* cookie and endpoint unchanged.
C10_PollKeepsSession ==
    [][/\ pc \in {"metrics", "metrics_wait", "logs", "logs_wait"} =>
            UNCHANGED <<private_key, cookie, endpoint>>
       /\ <<private_key, cookie, endpoint>>' # <<private_key, cookie, endpoint>> =>
            pc = "login1_wait"]_vars

\* a logs call has failed after a successful login
C10_Witness ==
    /\ pc = "aborted"
    /\ login_result = "OK"
    /\ IsPoll(request)
    /\ request.body = LogsParams
    /\ reply.transport = "ok" /\ reply.status # 200
    /\ private_key # UNDEFINED_PRIVATE_KEY

\* the step sends a new request
Issues(req) == req = request' /\ request' # request

\* C11: a metrics or logs request is issued only when the session is
\* Authenticated: the two-phase login has completed, its phase-2 reply
\* said "OK", and main is at the metrics or logs call of a poll cycle.
C11_PollOnlyWhenAuthenticated ==
    [][(IsPoll(request') /\ Issues(request'))
        => (/\ pc \in {"metrics", "logs"}
            /\ login_result = "OK"
            /\ response # NoResponse
            /\ private_key =
                 derived_private_key(response.PublicKey, password,
                                     response.Challenge))]_vars

\* the metrics request of the first cycle is in flight after a login
\* that ended with "OK"
C11_Witness ==
    /\ pc = "metrics_wait"
    /\ IsPoll(request)
    /\ request.body = MetricsParams
    /\ login_result = "OK"
    /\ inserted = <<>> /\ hash_set = {}

\* the positions at which a send_soap_action call waits for its reply
WaitPcs == {"login1_wait", "login2_wait", "metrics_wait", "logs_wait"}
\* the status field of the reply type awaited at p
StatusField(p) ==
    IF p \in {"login1_wait", "login2_wait"} THEN "LoginResult"
    ELSE "GetMultipleHNAPsResult"
\* r is a 200 reply that decodes into the reply type awaited at p
DecodesAt(p, r) ==
    /\ r.transport = "ok" /\ r.status = 200 /\ r.json /\ r.envelope
    /\ CASE p = "login1_wait" -> LoginResponse_decodes(r.body)
         [] p = "login2_wait" -> LoginWithChallengeResponse_decodes(r.body)
         [] p = "metrics_wait" -> MetricsResponse_decodes(r.body)
         [] p = "logs_wait" -> LogsResponse_decodes(r.body)
\* the caller at p has got the decoded payload of reply r
Delivered(p, r) ==
    CASE p = "login1_wait" -> response' = r.body
      [] p = "login2_wait" -> login_result' = r.body.LoginResult
      [] p = "metrics_wait" -> pc' = "logs"
      [] p = "logs_wait" -> /\ pc' = "map"
                            /\ logs' = log_parser(r.body.CustomerStatusLogList)

\* C12: when the reply of a signed action is 200 and decodes, the call
\* returns Err and the payload reaches no caller if the status is "ERROR";
\* with any other status it returns Ok and the caller gets the payload as
\* decoded.
C12_ErrorStatusDiscardsPayload ==
    [][(pc \in WaitPcs /\ DecodesAt(pc, reply'))
        => IF reply'.body[StatusField(pc)] = "ERROR"
           THEN /\ result' = "err"
                /\ pc' = "aborted"
                /\ UNCHANGED <<response, login_result, logs, clientvars>>
           ELSE /\ result' = "ok"
                /\ Delivered(pc, reply')]_vars

\* a logs call has returned Err on a 200 reply that decodes and says
\* "ERROR"
C12_Witness ==
    /\ result = "err"
    /\ IsPoll(request) /\ request.body = LogsParams
    /\ reply.transport = "ok" /\ reply.status = 200
    /\ LogsResponse_decodes(reply.body)
    /\ reply.body.GetMultipleHNAPsResult = "ERROR"
    /\ logs = <<>>

\* C13: a reply with an HTTP status other than 200 makes the signed action
\* return Err, whatever its body is: the body is not decoded (a body that
\* is no JSON does not panic the decoder) and no payload, however complete,
\* reaches the caller.
C13_Non200AlwaysFails ==
    [][(pc \in WaitPcs /\ reply'.transport = "ok" /\ reply'.status # 200)
        => (/\ result' = "err"
            /\ pc' = "aborted"
            /\ UNCHANGED <<response, login_result, logs, clientvars>>)]_vars

\* a metrics call has returned Err on a 404 reply whose body is no JSON
C13_Witness ==
    /\ result = "err"
    /\ pc = "aborted"
    /\ IsPoll(request) /\ request.body = MetricsParams
    /\ reply.transport = "ok" /\ reply.status = 404 /\ ~reply.json

\* C14: when a metrics or logs call of a poll cycle fails (transport
\* failure, non-200 status, status "ERROR" or decode failure) the session
\* is not terminated: main stays in the poll loop with the same private key
\* and cookie.
C14_PollFailureKeepsLoopRunning ==
    [][(pc \in {"metrics_wait", "logs_wait"} /\ result' # "ok")
        => (/\ pc' \in PollPcs
            /\ UNCHANGED <<private_key, cookie>>)]_vars

\* C15: there is one authentication sequence, started before any other
\* request; at most one request is in flight at any time; and the logs
\* request of a cycle is issued only after the metrics request of that
\* cycle was answered and its reply processed.
C15_OneRequestInFlightMetricsFirst ==
    [][/\ in_flight' <= 1
       /\ (Issues(request') /\ IsPhase1(request')) => request = NoRequest
       /\ (Issues(request') /\ IsPoll(request') /\ request'.body = LogsParams)
            => (/\ pc = "logs"
                /\ in_flight = 0
                /\ IsPoll(request) /\ request.body = MetricsParams
                /\ result = "ok"
                /\ MetricsResponse_decodes(reply.body))]_vars

\* the logs request of a cycle is the one request in flight, after the
\* metrics reply of that cycle
C15_Witness ==
    /\ pc = "logs_wait"
    /\ in_flight = 1
    /\ request.body = LogsParams
    /\ result = "ok"
    /\ MetricsResponse_decodes(reply.body)

\* C16: every phase-1 request sent by login() is signed with the
\* well-known default private key and carries no session cookie, also when
\* login() is called after an earlier login on the same client.
C16_Phase1AlwaysDefaultKey ==
    [][(Issues(request') /\ IsPhase1(request'))
        => SignedWith(request', UNDEFINED_PRIVATE_KEY, "")]_vars

---------------------------------------------------------------------------
(* Statements about the codecs *)

\* C20: on a field whose records all follow the grammar, the log-line
\* codec yields one entry per "}-{"-separated record, in the order of the
\* input, and the level of each entry is Error for the digit 3, Warn for
\* 4, Info for 5, Debug for 6 and Error for 0, 1, 2, 7, 8 and 9.
C20_LevelDigitMapsInOrder ==
    (pc = "decoded" /\ \A i \in 1..Len(field.records) : field.records[i].wf)
    => /\ parsed.kind = "ok"
       /\ Len(parsed.value) = Len(field.records)
       /\ \A i \in 1..Len(field.records) :
            LET r == field.records[i]
                e == parsed.value[i]
            IN /\ r.level = "3" => e.level = "Error"
               /\ r.level = "4" => e.level = "Warn"
               /\ r.level = "5" => e.level = "Info"
               /\ r.level = "6" => e.level = "Debug"
               /\ r.level \in {"0", "1", "2", "7", "8", "9"} => e.level = "Error"
               /\ e.message = r.message
               /\ e.timestamp = r.timestamp

\* a field of two records with the digits 7 and 4 was decoded to an Error
\* entry followed by a Warn entry
C20_Witness ==
    /\ pc = "decoded"
    /\ Len(field.records) = 2
    /\ field.records[1].level = "7" /\ field.records[2].level = "4"
    /\ parsed.kind = "ok"
    /\ Len(parsed.value) = 2
    /\ parsed.value[1].level = "Error" /\ parsed.value[2].level = "Warn"

\* the records of the field before record i all decode to a channel
EarlierDecode(i) ==
    \A j \in 1..(i - 1) :
        field.records[j].grammar # "none" /\ field.records[j].fits

\* C21: the channel-line codec tries the downstream pattern first and the
\* upstream pattern second, so a field whose records all decode yields for
\* each record the channel of the first pattern it follows; and when a
\* record follows neither pattern, the records before it having decoded,
\* the call returns the error naming that record and no channels.
C21_NoMatchIsErrorNamingRecord ==
    pc = "channels_decoded"
    => /\ \A i \in 1..Len(field.records) :
            (field.records[i].grammar = "none" /\ EarlierDecode(i))
            => (/\ parsed.kind = "err"
                /\ parsed.line = field.records[i].text
                /\ "value" \notin DOMAIN parsed)
       /\ EarlierDecode(Len(field.records) + 1)
            => (/\ parsed.kind = "ok"
                /\ Len(parsed.value) = Len(field.records)
                /\ \A i \in 1..Len(field.records) :
                     parsed.value[i].kind =
                        IF field.records[i].grammar = "down"
                        THEN "Downstream" ELSE "Upstream")

\* a field of a downstream record followed by a record of neither pattern
\* was decoded to the error naming the second record
C21_Witness ==
    /\ pc = "channels_decoded"
    /\ Len(field.records) = 2
    /\ field.records[1].grammar = "down" /\ field.records[1].fits
    /\ field.records[2].grammar = "none"
    /\ parsed.kind = "err"
    /\ parsed.line = field.records[2].text

\* C22: a record that follows a pattern but has a number that does not
\* parse into the type of its field (the records before it having decoded)
\* makes the call return an error value, as a record of neither pattern
\* does.
C22_NumericOverflowIsError ==
    pc = "channels_decoded"
    => \A i \in 1..Len(field.records) :
          (/\ field.records[i].grammar # "none"
           /\ ~field.records[i].fits
           /\ EarlierDecode(i))
          => parsed.kind = "err"

\* C23: the duration codec maps a text of the shape
\* "<D> days <H>h:<M>m:<S>s" to exactly D*86400 + H*3600 + M*60 + S
\* seconds, for all non-negative integers D, H, M and S, and returns an
\* error value for a text that is not of the shape.
C23_DurationSecondsOrError ==
    pc = "duration_decoded"
    => LET d == field.records[1]
       IN /\ d.shape = "exact"
               => (parsed.kind = "ok" /\ parsed.seconds = d.total)
          /\ d.shape = "none" => parsed.kind = "err"

---------------------------------------------------------------------------
(* Statements about the calls of the client (ClientSpec) *)

\* C24: the client never retries within a call: a metrics call and a logs
\* call send exactly one request, and a login call sends one phase-1
\* request and then at most one phase-2 request, whatever the replies are.
\* The last request tells which call is running or has just ended.
C24_NoRetryWithinCall ==
    request # NoRequest
    => /\ IsPoll(request) => sent = 1
       /\ IsPhase1(request) => sent = 1
       /\ IsPhase2(request) => sent = 2
       /\ in_flight <= 1

\* a metrics or logs call has failed after its one request
C24_Witness ==
    /\ pc = "aborted"
    /\ IsPoll(request)
    /\ result = "err"
    /\ sent = 1

---------------------------------------------------------------------------
(* Statements about the dedup set in the poll loop (Spec, RepeatSpec) *)

\* C25: the poll cycle inserts a record only after contains said no; then,
\* after any number of cycles, the stored records are pairwise distinct,
\* contains is true exactly for the records in the order queue, and neither
\* pop_front nor the eviction of the next insert can hit the
\* desynchronisation panic.
C25_DisciplineKeepsSetInStep ==
    /\ \A i, j \in 1..Len(deque) : i # j => deque[i] # deque[j]
    /\ \A x \in Entries : contains(Self, x) <=> x \in Range(deque)
    /\ hash_set = Range(deque)
    /\ ~pop_front(Self).panic
    /\ \A x \in Entries \ hash_set : ~insert(Self, x).panic

\* a cycle is mapping its list, the set is full, and a record the cycle
\* has forwarded was evicted again by the insert after it
C25_Witness ==
    /\ pc = "map"
    /\ Len(deque) = capacity - 1
    /\ \E i \in 1..Len(streams) :
          streams[i] # None /\ ~contains(Self, streams[i][1])

\* C26: with a capacity of 2 or more, when the logs call returns the list
\* the previous cycle got, and the list holds at most capacity - 1 distinct
\* records, the cycle forwards none of its records and leaves the dedup
\* set as it was.
C26_RepeatedListForwardsNothing ==
    [][(/\ pc = "map"
        /\ capacity >= 2
        /\ logs = last_logs
        /\ Cardinality(Range(logs)) <= capacity - 1)
       => (/\ \A i \in 1..Len(streams') : streams'[i] = None
           /\ UNCHANGED setvars)]_vars

===========================================================================
